---- MODULE Spec2Model ----
(***************************************************************************)
(* Model of sync.py (youtube-newpipe-sync): the diff engine                *)
(* (compare_subscriptions), the timeline ledger (load_timeline,            *)
(* update_timeline), the snapshot store (load_previous_metadata, the       *)
(* metadata.json write) and the pipeline of main().                        *)
(*                                                                         *)
(* Representation:                                                         *)
(*   - a channel {"name": .., "id": ..} is a record [id, name];            *)
(*   - Python's None is the record None;                                   *)
(*   - a file on disk is Missing, Malformed (exists, json.load raises) or  *)
(*     Json(v) (exists, json.load returns v);                              *)
(*   - datetime.utcnow() is the logical clock `run`;                       *)
(*   - iteration over a Python set has no order the program controls, so   *)
(*     a list built from a set is any enumeration of it.                   *)
(***************************************************************************)
EXTENDS Naturals, Sequences, FiniteSets, TLC

VARIABLES
    pc,                 \* position of the running call / of main()
    run,                \* logical clock: number of the run (or call) in progress
    maxEntries,         \* MAX_TIMELINE_ENTRIES in force (module global, sync.py:18)
    metaFile,           \* content of output/metadata.json
    timelineFile,       \* content of output/timeline.json
    written,            \* output files opened for writing by the run in progress
    previous_metadata,  \* main(): previous_metadata
    timeline,           \* main(): timeline (the dict {"entries": [...]})
    current_channels,   \* main(): current_channels
    changes,            \* main(): changes
    metadata,           \* main(): metadata
    stages,             \* history: stages completed by the run in progress, in order
    failure,            \* history: the stage whose exception ended the run, or "none"
    startMeta,          \* history: metadata.json as it was when the run started
    startTimeline,      \* history: timeline.json as it was when the run started
    oldEntries,         \* history: timeline["entries"] before the last update_timeline
    html,               \* the document generate_cleanup_html returned last
    prevRun             \* history: how the run before the one in progress ended

vars == <<pc, run, maxEntries, metaFile, timelineFile, written, previous_metadata,
          timeline, current_channels, changes, metadata, stages, failure,
          startMeta, startTimeline, oldEntries, html, prevRun>>

-----------------------------------------------------------------------------
(* Bounds *)

NumIds == 3        \* channel ids are 1..NumIds
MaxNMax == 3       \* MAX_TIMELINE_ENTRIES ranges over 1..MaxNMax
MaxCalls == 5      \* update_timeline calls in one behaviour of the ledger
MaxLoaded == 4     \* entries of a timeline file loaded from disk
MaxRuns == 2       \* runs of main() in one behaviour
MaxFetched == 2    \* the account subscribes to channels 1..MaxFetched in main()
MaxRendered == 12  \* entries of a timeline handed to generate_cleanup_html
MaxListed == 7     \* channels in one list of such an entry

-----------------------------------------------------------------------------
(* Values *)

None == [absent |-> TRUE]
Missing == [kind |-> "missing"]
Malformed == [kind |-> "malformed"]
Json(v) == [kind |-> "json", value |-> v]

Ids == 1..NumIds
Names == {"Tech Channel", "New Channel"}
Channel(i, n) == [id |-> i, name |-> n]
Channels == {Channel(i, n) : i \in Ids, n \in Names}

ids(s) == {s[k].id : k \in 1..Len(s)}
UniqueIds(s) == \A j, k \in 1..Len(s) : s[j].id = s[k].id => j = k

\* Channel lists as the fetch yields them: one record per subscribed channel.
Snapshots == {s \in UNION {[1..n -> Channels] : n \in 0..NumIds} : UniqueIds(s)}

\* Channel lists of a persisted metadata.json, in ascending id order
\* (compare_subscriptions reads the list only to build the dict by id).
Ascending(s) == \A j, k \in 1..Len(s) : j < k => s[j].id < s[k].id
PersistedSnapshots == {s \in Snapshots : Ascending(s)}

\* The lists a comprehension over the Python set S can build through the dict d.
ListsOver(S, d) ==
    {s \in [1..Cardinality(S) -> {d[i] : i \in S}] : {s[k].id : k \in 1..Len(s)} = S}

\* {ch["id"]: ch for ch in chans}: a later record with the same id wins.
by_id(chans) ==
    [i \in ids(chans) |->
        chans[CHOOSE k \in 1..Len(chans) :
                /\ chans[k].id = i
                /\ \A j \in 1..Len(chans) : chans[j].id = i => j <= k]]

-----------------------------------------------------------------------------
(* compare_subscriptions *)

added_ids(current, previous) == ids(current) \ ids(previous)

removed_ids_keep_all(current, previous) == ids(previous)
removed_ids(current, previous) == ids(previous) \ ids(current)

unchanged_ids(current, previous) == ids(current) \cap ids(previous)

first_run_unordered(current) ==
    {[added |-> a, removed |-> <<>>, unchanged |-> <<>>] :
        a \in ListsOver(ids(current), by_id(current))}
first_run(current) == {[added |-> current, removed |-> <<>>, unchanged |-> <<>>]}

\* unchanged taken from the previous snapshot's records.
compare_subscriptions_unchanged_from_previous(current, prev) ==
    IF prev = None
    THEN first_run(current)
    ELSE LET previous_channels == by_id(prev.channels)
             current_by_id == by_id(current)
         IN  {[added |-> a, removed |-> r, unchanged |-> u] :
                a \in ListsOver(added_ids(current, prev.channels), current_by_id),
                r \in ListsOver(removed_ids(current, prev.channels), previous_channels),
                u \in ListsOver(unchanged_ids(current, prev.channels), previous_channels)}

\* The set of dicts compare_subscriptions(current_channels, previous_metadata)
\* can return (one per enumeration order of the three id sets).
compare_subscriptions(current, prev) ==
    IF prev = None
    THEN first_run(current)
    ELSE LET previous_channels == by_id(prev.channels)
             current_by_id == by_id(current)
         IN  {[added |-> a, removed |-> r, unchanged |-> u] :
                a \in ListsOver(added_ids(current, prev.channels), current_by_id),
                r \in ListsOver(removed_ids(current, prev.channels), previous_channels),
                u \in ListsOver(unchanged_ids(current, prev.channels), current_by_id)}

\* A loaded metadata.json as far as compare_subscriptions reads it.
PrevOf(chans, t) ==
    [last_updated |-> t, subscription_count |-> Len(chans),
     changes |-> [added_count |-> 0, removed_count |-> 0, unchanged_count |-> 0],
     channels |-> chans, previous_sync |-> <<>>]

\* No run before this one (or it did not complete).
NoRun == [completed |-> FALSE, channels |-> <<>>, timelineFile |-> Missing]

NoChanges == [added |-> <<>>, removed |-> <<>>, unchanged |-> <<>>]

\* Inputs of compare_subscriptions drawn from the bounded sets.
InitCompare ==
    /\ pc = "compare"
    /\ current_channels \in Snapshots
    /\ previous_metadata \in {None} \cup {PrevOf(p, 0) : p \in PersistedSnapshots}
    /\ changes = None
    /\ run = 0
    /\ maxEntries = 1
    /\ metaFile = Missing
    /\ timelineFile = Missing
    /\ written = {}
    /\ timeline = [entries |-> <<>>]
    /\ metadata = None
    /\ stages = <<>>
    /\ failure = "none"
    /\ startMeta = Missing
    /\ startTimeline = Missing
    /\ oldEntries = <<>>
    /\ html = <<>>
    /\ prevRun = NoRun

Compare ==
    /\ pc = "compare"
    /\ changes' \in compare_subscriptions(current_channels, previous_metadata)
    /\ pc' = "compared"
    /\ UNCHANGED <<run, maxEntries, metaFile, timelineFile, written, previous_metadata,
                   timeline, current_channels, metadata, stages, failure,
                   startMeta, startTimeline, oldEntries>>
    /\ UNCHANGED <<html, prevRun>>

NextCompare == Compare

SpecCompare == InitCompare /\ [][NextCompare]_vars

-----------------------------------------------------------------------------
(* C1: with a present previous snapshot, the ids of added, removed and     *)
(* unchanged are pairwise disjoint, cover ids(A) \cup ids(B), and are      *)
(* ids(A) \ ids(B), ids(B) \ ids(A) and ids(A) \cap ids(B); no list        *)
(* repeats an id.                                                          *)
C1_Partition ==
    (pc = "compared" /\ previous_metadata # None) =>
        LET A == ids(current_channels)
            B == ids(previous_metadata.channels)
        IN  /\ ids(changes.added) = A \ B
            /\ ids(changes.removed) = B \ A
            /\ ids(changes.unchanged) = A \cap B
            /\ ids(changes.added) \cap ids(changes.removed) = {}
            /\ ids(changes.added) \cap ids(changes.unchanged) = {}
            /\ ids(changes.removed) \cap ids(changes.unchanged) = {}
            /\ ids(changes.added) \cup ids(changes.removed)
                  \cup ids(changes.unchanged) = A \cup B
            /\ UniqueIds(changes.added)
            /\ UniqueIds(changes.removed)
            /\ UniqueIds(changes.unchanged)

\* A diff with all three parts non-empty has been computed.
C1_Witness ==
    /\ pc = "compared"
    /\ previous_metadata # None
    /\ changes.added # <<>>
    /\ changes.removed # <<>>
    /\ changes.unchanged # <<>>

(* C2: with no previous snapshot the diff is added = A (same records, same *)
(* order), removed = [] and unchanged = [], also for the empty A.          *)
C2_FirstRun ==
    (pc = "compared" /\ previous_metadata = None) =>
        /\ changes.added = current_channels
        /\ changes.removed = <<>>
        /\ changes.unchanged = <<>>

\* A first-run diff of a snapshot whose ids are not in ascending order.
C2_Witness ==
    /\ pc = "compared"
    /\ previous_metadata = None
    /\ Len(current_channels) = 2
    /\ current_channels[1].id > current_channels[2].id
    /\ changes.added = current_channels

\* A first-run diff of the empty snapshot.
C2_WitnessEmpty ==
    /\ pc = "compared"
    /\ previous_metadata = None
    /\ current_channels = <<>>
    /\ changes = NoChanges

Records(s) == {s[k] : k \in 1..Len(s)}

(* C11: with a present previous snapshot, every record of added and of     *)
(* unchanged is a record of the current snapshot and every record of       *)
(* removed is a record of the previous snapshot; a channel whose id is in  *)
(* both snapshots is in unchanged with its current record (so with its     *)
(* current name when the name differs) and in neither added nor removed.   *)
C11_RecordSources ==
    (pc = "compared" /\ previous_metadata # None) =>
        LET cur == by_id(current_channels)
            prev == by_id(previous_metadata.channels)
        IN  /\ Records(changes.added) \subseteq Records(current_channels)
            /\ Records(changes.unchanged) \subseteq Records(current_channels)
            /\ Records(changes.removed) \subseteq Records(previous_metadata.channels)
            /\ \A i \in DOMAIN cur \cap DOMAIN prev :
                    /\ cur[i] \in Records(changes.unchanged)
                    /\ cur[i].name # prev[i].name =>
                            prev[i] \notin Records(changes.unchanged)
                    /\ i \notin ids(changes.added) \cup ids(changes.removed)

\* A channel kept across the two snapshots under a new name has been diffed.
C11_Witness ==
    /\ pc = "compared"
    /\ previous_metadata # None
    /\ \E j \in 1..Len(current_channels), k \in 1..Len(previous_metadata.channels) :
            /\ current_channels[j].id = previous_metadata.channels[k].id
            /\ current_channels[j].name # previous_metadata.channels[k].name
            /\ changes.unchanged = <<current_channels[j]>>
    /\ changes.added # <<>>
    /\ changes.removed # <<>>

-----------------------------------------------------------------------------
(* update_timeline *)

\* removed_count taken from the added list.
entry_removed_count_of_added(ch, md) ==
    [timestamp |-> md.last_updated,
     subscription_count |-> md.subscription_count,
     changes |-> [added_count |-> Len(ch.added),
                  removed_count |-> Len(ch.added),
                  unchanged_count |-> Len(ch.unchanged),
                  added_channels |-> ch.added,
                  removed_channels |-> ch.removed]]

\* The entry dict update_timeline builds from the diff and the metadata.
entry(ch, md) ==
    [timestamp |-> md.last_updated,
     subscription_count |-> md.subscription_count,
     changes |-> [added_count |-> Len(ch.added),
                  removed_count |-> Len(ch.removed),
                  unchanged_count |-> Len(ch.unchanged),
                  added_channels |-> ch.added,
                  removed_channels |-> ch.removed]]

\* changes["added"] or changes["removed"] or not timeline["entries"]
should_append_always(tl, ch) == TRUE
should_append(tl, ch) ==
    ch.added # <<>> \/ ch.removed # <<>> \/ tl.entries = <<>>

\* The Python slice s[-n:] for n >= 0 (s[-0:] is s[0:], the whole list).
KeepAll(s, n) == s
FirstN(s, n) == SubSeq(s, 1, IF n < Len(s) THEN n ELSE Len(s))
LastN(s, n) ==
    IF n = 0 \/ n >= Len(s) THEN s ELSE SubSeq(s, Len(s) - n + 1, Len(s))

\* update_timeline(timeline, changes, metadata) under MAX_TIMELINE_ENTRIES = max.
update_timeline(tl, ch, md, max) ==
    IF should_append(tl, ch)
    THEN [tl EXCEPT !.entries = LastN(Append(tl.entries, entry(ch, md)), max)]
    ELSE tl

\* Diffs handed to update_timeline: every combination of an empty or non-empty
\* added, removed and unchanged list.
LedgerDiffs ==
    {[added |-> a, removed |-> r, unchanged |-> u] :
        a \in {<<>>, <<Channel(1, "Tech Channel")>>},
        r \in {<<>>, <<Channel(2, "Tech Channel")>>},
        u \in {<<>>, <<Channel(3, "Tech Channel")>>}}

InitLedgerCommon ==
    /\ pc = "idle"
    /\ run = 0
    /\ maxEntries \in 1..MaxNMax
    /\ changes = None
    /\ metadata = None
    /\ oldEntries = <<>>
    /\ current_channels = <<>>
    /\ previous_metadata = None
    /\ metaFile = Missing
    /\ timelineFile = Missing
    /\ written = {}
    /\ stages = <<>>
    /\ failure = "none"
    /\ startMeta = Missing
    /\ startTimeline = Missing
    /\ html = <<>>
    /\ prevRun = NoRun

\* The ledger starting from the empty timeline {"entries": []}.
InitTimeline ==
    /\ timeline = [entries |-> <<>>]
    /\ InitLedgerCommon

\* One call timeline = update_timeline(timeline, changes, metadata).
UpdateTimelineCall ==
    /\ pc \in {"idle", "updated"}
    /\ run < MaxCalls
    /\ \E d \in LedgerDiffs :
        /\ changes' = d
        /\ metadata' = [last_updated |-> run + 1,
                        subscription_count |-> Len(d.added) + Len(d.unchanged)]
        /\ timeline' = update_timeline(timeline, changes', metadata', maxEntries)
    /\ oldEntries' = timeline.entries
    /\ run' = run + 1
    /\ pc' = "updated"
    /\ UNCHANGED <<maxEntries, metaFile, timelineFile, written, previous_metadata,
                   current_channels, stages, failure, startMeta, startTimeline>>
    /\ UNCHANGED <<html, prevRun>>

NextTimeline == UpdateTimelineCall

SpecTimeline == InitTimeline /\ [][NextTimeline]_vars

\* The last call appended its entry: entries are stamped with the call's clock.
Appended ==
    /\ timeline.entries # <<>>
    /\ timeline.entries[Len(timeline.entries)].timestamp = run

NoChangeDiff == changes.added = <<>> /\ changes.removed = <<>>

Timestamps(es) == [k \in 1..Len(es) |-> es[k].timestamp]

(* C3: from the empty timeline, after every update_timeline call the       *)
(* timeline holds at most N_max entries, for every N_max >= 1.             *)
C3_Bounded == Len(timeline.entries) <= maxEntries

\* An entry has been evicted: the timeline is full and its oldest entry is
\* not the first one ever recorded.
C3_Witness ==
    /\ pc = "updated"
    /\ Len(timeline.entries) = maxEntries
    /\ timeline.entries[1].timestamp > 1

(* C4: a call appends an entry iff added is non-empty or removed is        *)
(* non-empty or the timeline was empty before the call; a call that does   *)
(* not append leaves the entries as they were.                             *)
C4_AppendPolicy ==
    pc = "updated" =>
        /\ Appended <=> (~NoChangeDiff \/ oldEntries = <<>>)
        /\ (NoChangeDiff /\ oldEntries # <<>>) => timeline.entries = oldEntries

\* A no-change diff was just skipped on a non-empty timeline for the second
\* time in a row (the last entry is two calls old).
C4_Witness ==
    /\ pc = "updated"
    /\ NoChangeDiff
    /\ oldEntries # <<>>
    /\ timeline.entries = oldEntries
    /\ timeline.entries[Len(timeline.entries)].timestamp + 2 <= run

\* The first call, with a no-change diff, recorded the baseline entry.
C4_WitnessBaseline ==
    /\ pc = "updated"
    /\ NoChangeDiff
    /\ oldEntries = <<>>
    /\ Len(timeline.entries) = 1

(* C5: after an appending call the entries are the last N_max elements of  *)
(* (old entries, then the new entry), in the same order; 5 appends under   *)
(* N_max = 3 leave the 3rd, 4th and 5th entries in that order.             *)
C5_Fifo ==
    (pc = "updated" /\ (~NoChangeDiff \/ oldEntries = <<>>)) =>
        LET all == oldEntries \o <<entry(changes, metadata)>>
            new == timeline.entries
            drop == Len(all) - Len(new)
        IN  /\ Len(new) = IF Len(all) <= maxEntries THEN Len(all) ELSE maxEntries
            /\ \A k \in 1..Len(new) : new[k] = all[drop + k]
            /\ (maxEntries = 3 /\ run = 5 /\ Len(oldEntries) = 3
                    /\ Timestamps(oldEntries) = <<2, 3, 4>>)
                  => Timestamps(new) = <<3, 4, 5>>

\* Five appending calls under N_max = 3 have left the entries of calls 3, 4, 5.
C5_Witness ==
    /\ pc = "updated"
    /\ Appended
    /\ maxEntries = 3
    /\ run = 5
    /\ Timestamps(oldEntries) = <<2, 3, 4>>
    /\ Timestamps(timeline.entries) = <<3, 4, 5>>

(* C12: every entry of a timeline built by update_timeline calls from the  *)
(* empty timeline has added_count = len(added_channels) and removed_count  *)
(* = len(removed_channels), and the entry a call appends has               *)
(* unchanged_count = len(changes["unchanged"]).                            *)
C12_CountsConsistent ==
    /\ \A k \in 1..Len(timeline.entries) :
            LET c == timeline.entries[k].changes
            IN  /\ c.added_count = Len(c.added_channels)
                /\ c.removed_count = Len(c.removed_channels)
    /\ (pc = "updated" /\ Appended) =>
            LET c == timeline.entries[Len(timeline.entries)].changes
            IN  /\ c.unchanged_count = Len(changes.unchanged)
                /\ c.added_channels = changes.added
                /\ c.removed_channels = changes.removed

\* The timeline holds entries with different counts: one with a channel
\* added and none removed, then one with a channel removed and one unchanged.
C12_Witness ==
    /\ pc = "updated"
    /\ Appended
    /\ Len(timeline.entries) >= 2
    /\ LET c == timeline.entries[Len(timeline.entries)].changes
           b == timeline.entries[Len(timeline.entries) - 1].changes
       IN  /\ c.added_count = 0 /\ c.removed_count = 1 /\ c.unchanged_count = 1
           /\ b.added_count = 1 /\ b.removed_count = 0

-----------------------------------------------------------------------------
(* update_timeline on a timeline loaded from disk *)

LoadedEntry ==
    entry([added |-> <<Channel(1, "Tech Channel")>>, removed |-> <<>>, unchanged |-> <<>>],
          [last_updated |-> 0, subscription_count |-> 1])

\* What load_timeline can return for a timeline.json written earlier (by a
\* build with a larger MAX_TIMELINE_ENTRIES, say): any number of entries.
LoadedTimelines ==
    {[entries |-> [k \in 1..n |-> LoadedEntry]] : n \in 0..MaxLoaded}

InitLoaded ==
    /\ timeline \in LoadedTimelines
    /\ InitLedgerCommon

NextLoaded == UpdateTimelineCall

SpecLoaded == InitLoaded /\ [][NextLoaded]_vars

(* C6: for any input timeline, also a loaded one that holds more than      *)
(* N_max entries, and any diff, also a no-change diff that is not          *)
(* appended, the timeline update_timeline returns holds at most N_max      *)
(* entries.                                                                *)
C6_TruncatesAlways ==
    pc = "updated" => Len(timeline.entries) <= maxEntries

-----------------------------------------------------------------------------
(* generate_cleanup_html                                                   *)
(*                                                                         *)
(* The document is the sequence of the pieces the function appends to      *)
(* html, in order. A piece [kind, num, text] stands for one template: num  *)
(* is the number interpolated into it (0 when there is none) and text the  *)
(* string interpolated into it ("" when there is none); a channel id, a    *)
(* string of [A-Za-z0-9_-] that html.escape leaves as it is, is the num    *)
(* of its piece.                                                           *)

DisplayedMax == 10       \* timeline["entries"][-10:]
NamesShown == 5          \* changes_info["added_channels"][:5]
SecondsPerMinute == 60   \* strftime("%Y-%m-%d %H:%M UTC") drops the seconds

Piece(kind, num, text) == [kind |-> kind, num |-> num, text |-> text]

\* html.escape(s) on the names of the model.
escape(s) ==
    CASE s = "A&B" -> "A&amp;B"
      [] OTHER -> s

\* The order of the names of the model as Python compares str.
name_key(n) ==
    CASE n = "A&B" -> 1
      [] n = "New Channel" -> 2
      [] n = "Tech Channel" -> 3
      [] OTHER -> 4

\* sorted(chans, key=lambda x: x["name"]): a stable sort.
RECURSIVE insert_by_name(_, _)
insert_by_name(done, ch) ==
    IF done = <<>> THEN <<ch>>
    ELSE IF name_key(Head(done).name) <= name_key(ch.name)
         THEN <<Head(done)>> \o insert_by_name(Tail(done), ch)
         ELSE <<ch>> \o done

RECURSIVE sorted_by_name(_)
sorted_by_name(chans) ==
    IF chans = <<>> THEN <<>>
    ELSE insert_by_name(sorted_by_name(SubSeq(chans, 1, Len(chans) - 1)),
                        chans[Len(chans)])

\* The Python slice s[:n].
Prefix(s, n) == SubSeq(s, 1, IF n < Len(s) THEN n ELSE Len(s))

\* reversed(s)
Reverse(s) == [k \in 1..Len(s) |-> s[Len(s) + 1 - k]]

RECURSIVE Flatten(_)
Flatten(ss) == IF ss = <<>> THEN <<>> ELSE Head(ss) \o Flatten(Tail(ss))

\* The timestamp of an entry as the timeline shows it (to the minute).
format_timestamp(t) == t \div SecondsPerMinute

\* sync.py:259-306
header_block(ch, md) ==
    <<Piece("last_updated", md.last_updated, ""),
      Piece("total", md.subscription_count, ""),
      Piece("added_stat", Len(ch.added), ""),
      Piece("removed_stat", Len(ch.removed), ""),
      Piece("import_card", 0, "")>>

channel_pieces(kind, chans) ==
    [k \in 1..Len(chans) |-> Piece(kind, chans[k].id, escape(chans[k].name))]

\* sync.py:308-335
removal_block_always(ch) ==
    <<Piece("removal_section", 0, "")>>
        \o channel_pieces("removed_channel", sorted_by_name(ch.removed))
        \o <<Piece("removal_end", 0, "")>>
removal_block(ch) ==
    IF ch.removed # <<>>
    THEN <<Piece("removal_section", 0, "")>>
            \o channel_pieces("removed_channel", sorted_by_name(ch.removed))
            \o <<Piece("removal_end", 0, "")>>
    ELSE <<Piece("no_cleanup", 0, "")>>

\* sync.py:337-349
added_block(ch) ==
    IF ch.added # <<>>
    THEN <<Piece("added_section", 0, "")>>
            \o channel_pieces("added_channel", sorted_by_name(ch.added))
            \o <<Piece("added_end", 0, "")>>
    ELSE <<>>

\* sync.py:362-363: the entries the timeline shows, in the order shown.
displayed_entries_oldest_first(tl) == LastN(tl.entries, DisplayedMax)
displayed_entries(tl) == Reverse(LastN(tl.entries, DisplayedMax))

\* sync.py:398, 415: the channels of an entry whose names are listed.
shown_channels_all(chans) == chans
shown_channels(chans) == Prefix(chans, NamesShown)

\* sync.py:392-406 (added) and 409-423 (removed)
detail_block(kind, count, chans) ==
    IF count > 0
    THEN <<Piece(kind \o "_detail", count, "")>>
            \o (LET shown == shown_channels(chans)
                IN  [k \in 1..Len(shown) |->
                        Piece(kind \o "_name", 0, escape(shown[k].name))])
            \o (IF count > NamesShown
                THEN <<Piece(kind \o "_more", count - NamesShown, "")>>
                ELSE <<>>)
            \o <<Piece("detail_end", 0, "")>>
    ELSE <<>>

\* sync.py:364-426: one entry of the timeline.
entry_block(e) ==
    LET changes_info == e.changes
        has_changes == changes_info.added_count > 0 \/ changes_info.removed_count > 0
    IN  <<Piece("entry", format_timestamp(e.timestamp),
                IF has_changes THEN "timeline-entry" ELSE "timeline-entry no-changes"),
          Piece("entry_total", e.subscription_count, "")>>
        \o (IF has_changes
            THEN <<Piece("delta_added", changes_info.added_count, ""),
                   Piece("delta_removed", changes_info.removed_count, "")>>
            ELSE <<Piece("no_changes", 0, "")>>)
        \o detail_block("added", changes_info.added_count, changes_info.added_channels)
        \o detail_block("removed", changes_info.removed_count,
                        changes_info.removed_channels)
        \o <<Piece("entry_end", 0, "")>>

\* sync.py:429-435: num is len(timeline["entries"]).
footer_block_from_ten(tl) ==
    IF Len(tl.entries) >= DisplayedMax
    THEN <<Piece("footer", Len(tl.entries), "Full history is preserved in timeline.json.")>>
    ELSE <<>>
footer_block(tl) ==
    IF Len(tl.entries) > DisplayedMax
    THEN <<Piece("footer", Len(tl.entries), "Full history is preserved in timeline.json.")>>
    ELSE <<>>

\* sync.py:351-445
timeline_block(tl) ==
    LET shown == displayed_entries(tl)
    IN  <<Piece("timeline_section", 0, "")>>
            \o (IF tl.entries # <<>>
                THEN Flatten([k \in 1..Len(shown) |-> entry_block(shown[k])])
                        \o footer_block(tl)
                ELSE <<Piece("no_syncs", 0, "")>>)
            \o <<Piece("document_end", 0, "")>>

\* generate_cleanup_html(changes, metadata, timeline)
generate_cleanup_html(ch, md, tl) ==
    header_block(ch, md) \o removal_block(ch) \o added_block(ch) \o timeline_block(tl)

-----------------------------------------------------------------------------
(* main(): one run of the pipeline after another over the same output      *)
(* directory (the runs do not overlap).                                    *)

\* load_previous_metadata() on the given file: the value returned, or the
\* exception json.load raises on content that is not JSON.
load_previous_metadata_tolerant(file) ==
    IF file.kind = "json"
    THEN [raised |-> FALSE, value |-> file.value]
    ELSE [raised |-> FALSE, value |-> None]
load_previous_metadata(file) ==
    IF file.kind = "missing" THEN [raised |-> FALSE, value |-> None]
    ELSE IF file.kind = "malformed" THEN [raised |-> TRUE, value |-> None]
    ELSE [raised |-> FALSE, value |-> file.value]

\* load_timeline() on the given file.
load_timeline(file) ==
    IF file.kind = "missing" THEN [raised |-> FALSE, value |-> [entries |-> <<>>]]
    ELSE IF file.kind = "malformed"
         THEN [raised |-> TRUE, value |-> [entries |-> <<>>]]
         ELSE [raised |-> FALSE, value |-> file.value]

\* What the fetch yields in a run: the subscribed channels, in ascending id
\* order, under one title each.
FetchResults ==
    {s \in UNION {[1..n -> {Channel(i, "Tech Channel") : i \in 1..MaxFetched}] :
                    n \in 0..MaxFetched} : Ascending(s)}

\* The metadata dict main() builds (sync.py:503-515); previous_sync is <<>>
\* when the key is not set.
build_metadata_channels_added(subs, ch, prev, now) ==
    [last_updated |-> now,
     subscription_count |-> Len(subs),
     changes |-> [added_count |-> Len(ch.added),
                  removed_count |-> Len(ch.removed),
                  unchanged_count |-> Len(ch.unchanged)],
     channels |-> ch.added,
     previous_sync |-> IF prev # None THEN <<prev.last_updated>> ELSE <<>>]
build_metadata(subs, ch, prev, now) ==
    [last_updated |-> now,
     subscription_count |-> Len(subs),
     changes |-> [added_count |-> Len(ch.added),
                  removed_count |-> Len(ch.removed),
                  unchanged_count |-> Len(ch.unchanged)],
     channels |-> subs,
     previous_sync |-> IF prev # None THEN <<prev.last_updated>> ELSE <<>>]

InitMain ==
    /\ pc = "idle"
    /\ run = 0
    /\ maxEntries \in 1..MaxNMax
    /\ metaFile = Missing
    /\ timelineFile = Missing
    /\ written = {}
    /\ previous_metadata = None
    /\ timeline = [entries |-> <<>>]
    /\ current_channels = <<>>
    /\ changes = None
    /\ metadata = None
    /\ stages = <<>>
    /\ failure = "none"
    /\ startMeta = Missing
    /\ startTimeline = Missing
    /\ oldEntries = <<>>
    /\ html = <<>>
    /\ prevRun = NoRun

\* The scheduler starts the next run once the previous one has ended.
StartRun ==
    /\ pc \in {"idle", "done", "error"}
    /\ run < MaxRuns
    /\ run' = run + 1
    /\ pc' = "load_metadata"
    /\ written' = {}
    /\ previous_metadata' = None
    /\ timeline' = [entries |-> <<>>]
    /\ current_channels' = <<>>
    /\ changes' = None
    /\ metadata' = None
    /\ stages' = <<>>
    /\ failure' = "none"
    /\ startMeta' = metaFile
    /\ startTimeline' = timelineFile
    /\ oldEntries' = <<>>
    /\ UNCHANGED <<maxEntries, metaFile, timelineFile>>
    /\ html' = <<>>
    /\ prevRun' = IF pc = "done"
                  THEN [completed |-> TRUE, channels |-> current_channels,
                        timelineFile |-> timelineFile]
                  ELSE NoRun

\* The stage at pc raises: the exception leaves main().
Raise(stage) ==
    /\ pc' = "error"
    /\ failure' = stage

\* The stage at pc returns: main() goes on to the stage `next`.
Return(stage, next) ==
    /\ pc' = next
    /\ stages' = Append(stages, stage)
    /\ failure' = failure

\* sync.py:455
LoadPreviousMetadata ==
    /\ pc = "load_metadata"
    /\ LET r == load_previous_metadata(metaFile)
       IN  IF r.raised
           THEN Raise("load_metadata") /\ UNCHANGED <<previous_metadata, stages>>
           ELSE Return("load_metadata", "load_timeline") /\ previous_metadata' = r.value
    /\ UNCHANGED <<run, maxEntries, metaFile, timelineFile, written, timeline,
                   current_channels, changes, metadata, startMeta, startTimeline,
                   oldEntries>>
    /\ UNCHANGED <<html, prevRun>>

\* sync.py:459
LoadTimeline ==
    /\ pc = "load_timeline"
    /\ LET r == load_timeline(timelineFile)
       IN  IF r.raised
           THEN Raise("load_timeline") /\ UNCHANGED <<timeline, stages>>
           ELSE Return("load_timeline", "fetch") /\ timeline' = r.value
    /\ UNCHANGED <<run, maxEntries, metaFile, timelineFile, written, previous_metadata,
                   current_channels, changes, metadata, startMeta, startTimeline,
                   oldEntries>>
    /\ UNCHANGED <<html, prevRun>>

\* sync.py:462-474: the fetch returns the subscriptions.
FetchReturns ==
    /\ pc = "fetch"
    /\ current_channels' \in FetchResults
    /\ Return("fetch", "compare")
    /\ UNCHANGED <<run, maxEntries, metaFile, timelineFile, written, previous_metadata,
                   timeline, changes, metadata, startMeta, startTimeline, oldEntries>>
    /\ UNCHANGED <<html, prevRun>>

\* The exception swallowed: main() goes on with no subscriptions.
FetchRaisesSwallowed ==
    /\ pc = "fetch"
    /\ pc' = "compare"
    /\ failure' = "fetch"
    /\ UNCHANGED <<run, maxEntries, metaFile, timelineFile, written, previous_metadata,
                   timeline, current_channels, changes, metadata, stages, startMeta,
                   startTimeline, oldEntries>>
    /\ UNCHANGED <<html, prevRun>>

\* sync.py:462-464: get_youtube_client or request.execute() raises (network,
\* auth, rate limit); nothing catches it.
FetchRaises ==
    /\ pc = "fetch"
    /\ Raise("fetch")
    /\ UNCHANGED <<run, maxEntries, metaFile, timelineFile, written, previous_metadata,
                   timeline, current_channels, changes, metadata, stages, startMeta,
                   startTimeline, oldEntries>>
    /\ UNCHANGED <<html, prevRun>>

\* sync.py:478
CompareStep ==
    /\ pc = "compare"
    /\ changes' \in compare_subscriptions(current_channels, previous_metadata)
    /\ Return("compare", "write_subscriptions")
    /\ UNCHANGED <<run, maxEntries, metaFile, timelineFile, written, previous_metadata,
                   timeline, current_channels, metadata, startMeta, startTimeline,
                   oldEntries>>
    /\ UNCHANGED <<html, prevRun>>

\* with open(file, "w") as f: dump(..., f) for an output file whose content
\* the model does not keep: open raises (the file is untouched), or the dump
\* raises after open truncated the file, or the file is written.
WriteOutput(stage, file, next) ==
    /\ pc = stage
    /\ \/ Raise(stage) /\ UNCHANGED <<written, stages>>
       \/ Raise(stage) /\ written' = written \cup {file} /\ UNCHANGED stages
       \/ Return(stage, next) /\ written' = written \cup {file}
    /\ UNCHANGED <<run, maxEntries, metaFile, timelineFile, previous_metadata,
                   timeline, current_channels, changes, metadata, startMeta,
                   startTimeline, oldEntries>>
    /\ UNCHANGED <<html, prevRun>>

\* sync.py:485-486
WriteSubscriptions ==
    WriteOutput("write_subscriptions", "subscriptions.json", "write_subscriptions_dated")

\* sync.py:489-493
WriteSubscriptionsDated ==
    WriteOutput("write_subscriptions_dated", "subscriptions-DATE.json", "write_csv")

\* sync.py:497
WriteCsv == WriteOutput("write_csv", "subscriptions.csv", "write_csv_dated")

\* sync.py:498-500
WriteCsvDated == WriteOutput("write_csv_dated", "subscriptions-DATE.csv", "build_metadata")

\* sync.py:503-515
BuildMetadata ==
    /\ pc = "build_metadata"
    /\ metadata' = build_metadata(current_channels, changes, previous_metadata, run)
    /\ Return("build_metadata", "write_metadata")
    /\ UNCHANGED <<run, maxEntries, metaFile, timelineFile, written, previous_metadata,
                   timeline, current_channels, changes, startMeta, startTimeline,
                   oldEntries>>
    /\ UNCHANGED <<html, prevRun>>

\* sync.py:518-519
WriteMetadata ==
    /\ pc = "write_metadata"
    /\ \/ Raise("write_metadata") /\ UNCHANGED <<written, stages, metaFile>>
       \/ /\ Raise("write_metadata")
          /\ written' = written \cup {"metadata.json"}
          /\ metaFile' = Malformed
          /\ UNCHANGED stages
       \/ /\ Return("write_metadata", "update_timeline")
          /\ written' = written \cup {"metadata.json"}
          /\ metaFile' = Json(metadata)
    /\ UNCHANGED <<run, maxEntries, timelineFile, previous_metadata, timeline,
                   current_channels, changes, metadata, startMeta, startTimeline,
                   oldEntries>>
    /\ UNCHANGED <<html, prevRun>>

\* sync.py:523
UpdateTimelineStep ==
    /\ pc = "update_timeline"
    /\ oldEntries' = timeline.entries
    /\ timeline' = update_timeline(timeline, changes, metadata, maxEntries)
    /\ Return("update_timeline", "write_timeline")
    /\ UNCHANGED <<run, maxEntries, metaFile, timelineFile, written, previous_metadata,
                   current_channels, changes, metadata, startMeta, startTimeline>>
    /\ UNCHANGED <<html, prevRun>>

\* sync.py:524-525
WriteTimeline ==
    /\ pc = "write_timeline"
    /\ \/ Raise("write_timeline") /\ UNCHANGED <<written, stages, timelineFile>>
       \/ /\ Raise("write_timeline")
          /\ written' = written \cup {"timeline.json"}
          /\ timelineFile' = Malformed
          /\ UNCHANGED stages
       \/ /\ Return("write_timeline", "write_changes")
          /\ written' = written \cup {"timeline.json"}
          /\ timelineFile' = Json(timeline)
    /\ UNCHANGED <<run, maxEntries, metaFile, previous_metadata, timeline,
                   current_channels, changes, metadata, startMeta, startTimeline,
                   oldEntries>>
    /\ UNCHANGED <<html, prevRun>>

\* sync.py:529-541
WriteChanges == WriteOutput("write_changes", "changes.json", "render")

\* sync.py:545
Render ==
    /\ pc = "render"
    /\ Return("render", "write_index")
    /\ UNCHANGED <<run, maxEntries, metaFile, timelineFile, written, previous_metadata,
                   timeline, current_channels, changes, metadata, startMeta,
                   startTimeline, oldEntries>>
    /\ html' = generate_cleanup_html(changes, metadata, timeline)
    /\ UNCHANGED prevRun

\* sync.py:546-547
WriteIndex == WriteOutput("write_index", "index.html", "done")

NextMain ==
    \/ StartRun
    \/ LoadPreviousMetadata
    \/ LoadTimeline
    \/ FetchReturns
    \/ FetchRaises
    \/ CompareStep
    \/ WriteSubscriptions
    \/ WriteSubscriptionsDated
    \/ WriteCsv
    \/ WriteCsvDated
    \/ BuildMetadata
    \/ WriteMetadata
    \/ UpdateTimelineStep
    \/ WriteTimeline
    \/ WriteChanges
    \/ Render
    \/ WriteIndex

SpecMain == InitMain /\ [][NextMain]_vars

Done(stage) == \E k \in 1..Len(stages) : stages[k] = stage

WriteStages ==
    {"write_subscriptions", "write_subscriptions_dated", "write_csv",
     "write_csv_dated", "write_metadata", "write_timeline", "write_changes",
     "write_index"}

(* C7: if the fetch fails, the run ends with an error and has written or   *)
(* overwritten no output file; metadata.json and timeline.json are as they *)
(* were when the run started.                                              *)
C7_FetchFailure ==
    failure = "fetch" =>
        /\ pc = "error"
        /\ written = {}
        /\ metaFile = startMeta
        /\ timelineFile = startTimeline

\* The fetch failed in a run that found the state files of an earlier run.
C7_Witness ==
    /\ failure = "fetch"
    /\ pc = "error"
    /\ startMeta.kind = "json"
    /\ startTimeline.kind = "json"

(* C8: if a write fails at any step of a run, metadata.json and            *)
(* timeline.json are either both as they were before the run or both       *)
(* updated by it.                                                          *)
C8_NoPartialState ==
    (pc = "error" /\ failure \in WriteStages) =>
        \/ metaFile = startMeta /\ timelineFile = startTimeline
        \/ /\ Done("write_metadata") /\ metaFile = Json(metadata)
           /\ Done("write_timeline") /\ timelineFile = Json(timeline)

(* C9: within one run the new snapshot (metadata.json) is persisted only   *)
(* after the timeline has been updated and the report has been rendered.   *)
C9_SnapshotPersistedLast ==
    Done("write_metadata") => Done("update_timeline") /\ Done("render")

(* C10: a missing metadata.json loads as None and a missing timeline.json  *)
(* as {"entries": []}; an existing file that is not JSON ends the run with *)
(* an error at the load, before any file is written, and never loads as    *)
(* an empty history.                                                       *)
C10_LoadTolerance ==
    /\ (pc = "load_timeline" /\ startMeta = Missing) => previous_metadata = None
    /\ (pc = "fetch" /\ startTimeline = Missing) => timeline = [entries |-> <<>>]
    /\ (startMeta = Malformed /\ pc \notin {"idle", "load_metadata"}) =>
            /\ pc = "error" /\ failure = "load_metadata"
            /\ written = {}
            /\ metaFile = startMeta /\ timelineFile = startTimeline
    /\ (startTimeline = Malformed /\ startMeta # Malformed
            /\ pc \notin {"idle", "load_metadata", "load_timeline"}) =>
            /\ pc = "error" /\ failure = "load_timeline"
            /\ written = {}
            /\ metaFile = startMeta /\ timelineFile = startTimeline

\* A run ended at load_timeline on a timeline.json that is not JSON, while
\* metadata.json loaded.
C10_Witness ==
    /\ pc = "error"
    /\ failure = "load_timeline"
    /\ startTimeline = Malformed
    /\ startMeta.kind = "json"

\* A run ended at load_previous_metadata on a metadata.json that is not JSON.
C10_WitnessMetadata ==
    /\ pc = "error"
    /\ failure = "load_metadata"
    /\ startMeta = Malformed

\* A first run loaded both missing files.
C10_WitnessMissing ==
    /\ pc = "fetch"
    /\ startMeta = Missing
    /\ startTimeline = Missing
    /\ previous_metadata = None
    /\ timeline = [entries |-> <<>>]

(* C18: after a run that completes, the channel list of metadata.json is   *)
(* the list fetched in that run; and when the run before it completed too  *)
(* and fetched the same set of channels, the diff of this run has added    *)
(* and removed empty and unchanged equal to the whole fetched list, and    *)
(* timeline.json is what it was after the run before.                      *)
C18_IdempotentRerun ==
    pc = "done" =>
        /\ metaFile.kind = "json"
        /\ metaFile.value.channels = current_channels
        /\ (prevRun.completed /\ Records(current_channels) = Records(prevRun.channels)) =>
                /\ changes.added = <<>>
                /\ changes.removed = <<>>
                /\ Len(changes.unchanged) = Len(current_channels)
                /\ Records(changes.unchanged) = Records(current_channels)
                /\ timelineFile = prevRun.timelineFile

\* Two runs in a row completed on the same two channels; the timeline holds
\* the entry of the first run only.
C18_Witness ==
    /\ pc = "done"
    /\ prevRun.completed
    /\ Len(current_channels) = 2
    /\ current_channels = prevRun.channels
    /\ timelineFile.kind = "json"
    /\ Len(timelineFile.value.entries) = 1

\* Two runs in a row completed on different channels: the second run's entry
\* is in timeline.json.
C18_WitnessChanged ==
    /\ pc = "done"
    /\ prevRun.completed
    /\ Records(current_channels) # Records(prevRun.channels)
    /\ timelineFile # prevRun.timelineFile

-----------------------------------------------------------------------------
(* generate_cleanup_html on inputs drawn from bounded sets *)

\* Channels under names that are not in sorted order, repeat, and need escaping.
RenderChannel(i) ==
    Channel(i, CASE i % 3 = 1 -> "Tech Channel"
                 [] i % 3 = 2 -> "A&B"
                 [] OTHER -> "New Channel")

RenderList(from, n) == [k \in 1..n |-> RenderChannel(from + k - 1)]

RenderDiff(a, r) ==
    [added |-> RenderList(1, a), removed |-> RenderList(MaxListed + 1, r),
     unchanged |-> <<>>]

\* The diff of the run that renders.
RenderDiffs == {RenderDiff(a, r) : a \in {0, 2}, r \in {0, 1, 3}}

\* The (added, removed) sizes of the entries of a rendered timeline.
NoChangeKind == <<0, 0>>
ChangeKinds == {<<1, 0>>, <<MaxListed - 1, 0>>, <<NamesShown, MaxListed>>}

\* The entry update_timeline built at second 60 * k + 15 for a diff of the kind.
RenderEntry(k, kind) ==
    entry(RenderDiff(kind[1], kind[2]),
          [last_updated |-> SecondsPerMinute * k + 15, subscription_count |-> k])

\* Where the one entry of another kind sits in a timeline of n entries.
SpecialAt(where, n) ==
    CASE where = "second" -> 2
      [] where = "newest" -> n
      [] OTHER -> IF n > DisplayedMax THEN n + 1 - DisplayedMax ELSE 2

\* Timelines as the ledger holds them: the oldest entry may be the baseline
\* entry of a first sync without changes, every later entry records changes.
RenderTimelines ==
    {[entries |-> [k \in 1..n |->
                    RenderEntry(k, IF k = 1 THEN first
                                   ELSE IF k = SpecialAt(where, n) THEN special
                                   ELSE base)]] :
        n \in 0..MaxRendered,
        first \in {NoChangeKind} \cup ChangeKinds,
        base \in ChangeKinds,
        special \in ChangeKinds,
        where \in {"second", "newest", "oldest_shown"}}

InitRender ==
    /\ pc = "render"
    /\ changes \in RenderDiffs
    /\ timeline \in RenderTimelines
    /\ metadata = [last_updated |-> SecondsPerMinute * (Len(timeline.entries) + 1),
                   subscription_count |-> Len(changes.added)]
    /\ html = <<>>
    /\ run = 0
    /\ maxEntries = 1
    /\ metaFile = Missing
    /\ timelineFile = Missing
    /\ written = {}
    /\ previous_metadata = None
    /\ current_channels = <<>>
    /\ stages = <<>>
    /\ failure = "none"
    /\ startMeta = Missing
    /\ startTimeline = Missing
    /\ oldEntries = <<>>
    /\ prevRun = NoRun

\* html = generate_cleanup_html(changes, metadata, timeline)
RenderCall ==
    /\ pc = "render"
    /\ html' = generate_cleanup_html(changes, metadata, timeline)
    /\ pc' = "rendered"
    /\ UNCHANGED <<run, maxEntries, metaFile, timelineFile, written, previous_metadata,
                   timeline, current_channels, changes, metadata, stages, failure,
                   startMeta, startTimeline, oldEntries, prevRun>>

NextRender == RenderCall

SpecRender == InitRender /\ [][NextRender]_vars

\* Reading the document back.
Count(kind) == Cardinality({k \in 1..Len(html) : html[k].kind = kind})
Positions(kind) ==
    SelectSeq([k \in 1..Len(html) |-> k], LAMBDA k : html[k].kind = kind)
OfKind(seq, kind) == SelectSeq(seq, LAMBDA p : p.kind = kind)
\* The pieces of each entry the timeline section shows, in the order shown.
ShownEntries ==
    LET starts == Positions("entry")
        ends == Positions("entry_end")
    IN  IF Len(starts) = Len(ends)
        THEN [j \in 1..Len(starts) |-> SubSeq(html, starts[j], ends[j])]
        ELSE <<>>

(* C13: the document holds exactly one of the removal section and the      *)
(* no-cleanup placeholder, the removal section iff removed is non-empty;   *)
(* it holds the added section iff added is non-empty; it holds the         *)
(* timeline section for every input.                                       *)
C13_Sections ==
    pc = "rendered" =>
        /\ Count("removal_section") + Count("no_cleanup") = 1
        /\ Count("removal_section") = 1 <=> changes.removed # <<>>
        /\ Count("added_section") = (IF changes.added # <<>> THEN 1 ELSE 0)
        /\ Count("timeline_section") = 1

\* A document for a diff with nothing removed and channels added.
C13_Witness ==
    /\ pc = "rendered"
    /\ changes.removed = <<>>
    /\ changes.added # <<>>
    /\ Count("no_cleanup") = 1
    /\ Count("added_section") = 1

\* A document for a diff with channels removed.
C13_WitnessRemoved ==
    /\ pc = "rendered"
    /\ changes.removed # <<>>
    /\ Count("removal_section") = 1

(* C14: the timeline section shows the min(10, length) most recent         *)
(* entries, newest first; an entry with added_count = removed_count = 0 is *)
(* shown with the no-changes marker and without the +/- deltas, every      *)
(* other entry with the deltas and without the marker.                     *)
C14_RecentNewestFirst ==
    pc = "rendered" =>
        LET n == Len(timeline.entries)
            shown == ShownEntries
            Shown(j) == shown[j]
        IN  /\ Count("entry") = (IF n < 10 THEN n ELSE 10)
            /\ Len(shown) = Count("entry")
            /\ \A j \in 1..Len(shown) :
                LET e == timeline.entries[n + 1 - j]
                    quiet == e.changes.added_count = 0 /\ e.changes.removed_count = 0
                IN  /\ Shown(j)[1].num = format_timestamp(e.timestamp)
                    /\ Shown(j)[2] = Piece("entry_total", e.subscription_count, "")
                    /\ Len(OfKind(Shown(j), "no_changes")) = (IF quiet THEN 1 ELSE 0)
                    /\ OfKind(Shown(j), "delta_added") =
                         (IF quiet THEN <<>>
                          ELSE <<Piece("delta_added", e.changes.added_count, "")>>)
                    /\ OfKind(Shown(j), "delta_removed") =
                         (IF quiet THEN <<>>
                          ELSE <<Piece("delta_removed", e.changes.removed_count, "")>>)

\* A timeline of 12 entries has been rendered: 10 are shown, from the 12th
\* down to the 3rd.
C14_Witness ==
    /\ pc = "rendered"
    /\ Len(timeline.entries) = 12
    /\ Len(ShownEntries) = 10
    /\ ShownEntries[1][2].num = 12
    /\ ShownEntries[10][2].num = 3

\* A baseline entry without changes is shown, below an entry with changes.
C14_WitnessNoChanges ==
    /\ pc = "rendered"
    /\ Len(ShownEntries) = 2
    /\ Len(OfKind(ShownEntries[2], "no_changes")) = 1
    /\ Len(OfKind(ShownEntries[1], "delta_added")) = 1

(* C15 as claimed: with more than 10 entries the footer states how many    *)
(* entries are hidden (total minus 10); with 10 or fewer there is no       *)
(* footer.                                                                 *)
C15_FooterStatesHidden ==
    pc = "rendered" =>
        LET n == Len(timeline.entries)
        IN  IF n > 10
            THEN /\ Count("footer") = 1
                 /\ OfKind(html, "footer")[1].num = n - 10
            ELSE Count("footer") = 0

(* C15 as amended: with more than 10 entries the document has one footer,  *)
(* after the shown entries, that states the total number of entries (as    *)
(* "last 10 of <total>") and that the full history is kept in              *)
(* timeline.json; with 10 or fewer entries there is no footer.             *)
C15_FooterStatesTotal ==
    pc = "rendered" =>
        LET n == Len(timeline.entries)
        IN  IF n > 10
            THEN /\ Count("footer") = 1
                 /\ OfKind(html, "footer")[1].num = n
                 /\ Positions("footer")[1] = Positions("entry_end")[10] + 1
            ELSE Count("footer") = 0

\* A timeline of 12 entries has been rendered with its footer.
C15_Witness ==
    /\ pc = "rendered"
    /\ Len(timeline.entries) = 12
    /\ Count("footer") = 1

(* C16: for each shown entry and each kind (added, removed) with k         *)
(* channels, the names listed are those of the first min(5, k) channels    *)
(* in stored order, and the "... and N more" suffix is there exactly when  *)
(* k > 5, with N = k - 5.                                                  *)
C16_NamesListed ==
    pc = "rendered" =>
        LET shown == ShownEntries
            Shown(j) == shown[j]
        IN
        \A j \in 1..Len(shown) :
            LET e == timeline.entries[Len(timeline.entries) + 1 - j]
                Listed(kind, chans) ==
                    LET k == Len(chans)
                        m == IF k < 5 THEN k ELSE 5
                    IN  /\ OfKind(Shown(j), kind \o "_name") =
                              [i \in 1..m |-> Piece(kind \o "_name", 0, escape(chans[i].name))]
                        /\ OfKind(Shown(j), kind \o "_more") =
                              (IF k > 5 THEN <<Piece(kind \o "_more", k - 5, "")>>
                               ELSE <<>>)
            IN  /\ Listed("added", e.changes.added_channels)
                /\ Listed("removed", e.changes.removed_channels)

\* The newest entry is shown with exactly 5 added names and no suffix, and
\* with 5 of its 7 removed names and the suffix for the other 2.
C16_Witness ==
    /\ pc = "rendered"
    /\ Len(ShownEntries) >= 2
    /\ Len(timeline.entries[Len(timeline.entries)].changes.added_channels) = 5
    /\ Len(timeline.entries[Len(timeline.entries)].changes.removed_channels) = 7
    /\ Len(OfKind(ShownEntries[1], "added_name")) = 5
    /\ OfKind(ShownEntries[1], "added_more") = <<>>
    /\ Len(OfKind(ShownEntries[1], "removed_name")) = 5
    /\ OfKind(ShownEntries[1], "removed_more") = <<Piece("removed_more", 2, "")>>

====
